---------------------------- MODULE Spec2Model ----------------------------
(***************************************************************************)
(* Model of the quiz-board game server (src/server/src/index.ts): the      *)
(* session registry, the socket handlers join-game, roll-dice,             *)
(* answer-question, restart-game and disconnect, the create-game route and *)
(* the one-second sweep that enforces the turn and question deadlines.     *)
(*                                                                         *)
(* Conventions.                                                            *)
(*  - An optional field (T | undefined) is the empty set when undefined    *)
(*    and the singleton {v} when it holds v.                               *)
(*  - Arrays are sequences; the code's 0-based index i is element i + 1.   *)
(*  - A deadline is held as its distance to the clock, turnEndsAt minus    *)
(*    Date.now(): the code only ever tests a deadline for being set and    *)
(*    for now > deadline, so a deadline that has passed is kept as -1.     *)
(*    Tick is the passage of time between two handler runs.                *)
(*  - The board and the question list of a session never change after     *)
(*    create-game; they are the definitions board and questions.           *)
(*  - Player display names only feed the log texts and are left out; a log *)
(*    entry is the kind of the message pushed.                             *)
(***************************************************************************)
EXTENDS Integers, Sequences, FiniteSets, TLC

VARIABLES sessions, socketToPlayerId, last

vars == <<sessions, socketToPlayerId, last>>

(* ------------------------------ bounds -------------------------------- *)

\* length of the board built for a session
BoardSize == 10

\* the log keeps its MaxLog most recent entries
MaxLog == 1

\* amount by which one Tick advances the clock, in ms
TickMs == 40000

\* socket ids, player ids sent by clients, game ids createGameId may return
Sockets == {"s1", "s2"}

PlayerIds == {"p1", "p2"}

\* the player id each socket sends with join-game: a client keeps its
\* player id (getPlayerId) across connections
Clients == {<<"s1", "p1">>, <<"s2", "p2">>}

GameIds == {"G1"}

\* option indexes a client submits
AnswerIndexes == {1, 2}

(* ----------------------------- constants ------------------------------ *)

TURN_TIME_MS == 30000

QUESTION_TIME_MS == 20000

undefined == {}

Some(v) == {v}

Get(o) == CHOOSE v \in o : TRUE

\* the rows seeded into the questions table: id and correctIndex
getAllQuestions ==
  << [id |-> 1, correctIndex |-> 1],
     [id |-> 2, correctIndex |-> 1],
     [id |-> 3, correctIndex |-> 2] >>

\* question ids a client submits: the seeded ones and one that does not exist
QuestionIds == {1, 2, 3, 4}

\* the values rollDice() returns
rollDice == 1..6

(* ------------------------------ helpers ------------------------------- *)

Min(a, b) == IF a < b THEN a ELSE b

Max(a, b) == IF a > b THEN a ELSE b

\* the board with the test for 5 made before the test for 7
createBoard_TrapFirst(size) ==
  [k \in 1..size |->
     LET i == k - 1 IN
       IF i # 0 /\ i % 5 = 0 THEN [index |-> i, type |-> "TRAP", value |-> 2]
       ELSE IF i # 0 /\ i % 7 = 0 THEN [index |-> i, type |-> "BOOST", value |-> 3]
       ELSE [index |-> i, type |-> "NORMAL"]]

\* lines 71-81
createBoard(size) ==
  [k \in 1..size |->
     LET i == k - 1 IN
       IF i # 0 /\ i % 7 = 0 THEN [index |-> i, type |-> "BOOST", value |-> 3]
       ELSE IF i # 0 /\ i % 5 = 0 THEN [index |-> i, type |-> "TRAP", value |-> 2]
       ELSE [index |-> i, type |-> "NORMAL"]]

\* session.board and session.questions: assigned by create-game, never written
\* afterwards and the same in every session, so kept outside the session record
board == createBoard(BoardSize)

questions == getAllQuestions

\* field.value || 0
FieldValue(field) == IF "value" \in DOMAIN field THEN field.value ELSE 0

\* startTurnTimer that forgets to drop the question deadline
startTurnTimer_KeepQuestion(session) ==
  [session EXCEPT !.turnEndsAt = Some(TURN_TIME_MS)]

startTurnTimer(session) ==
  [session EXCEPT !.turnEndsAt = Some(TURN_TIME_MS),
                  !.questionEndsAt = undefined]

\* session.log.push(entry)
LogPush(log, entry) ==
  IF Len(log) < MaxLog THEN Append(log, entry) ELSE Append(Tail(log), entry)

\* session.players.findIndex((p) => p.id === playerId), -1 when absent
FindIndex(players, playerId) ==
  IF \E k \in DOMAIN players : players[k].id = playerId
  THEN (CHOOSE k \in DOMAIN players :
          /\ players[k].id = playerId
          /\ \A j \in DOMAIN players : players[j].id = playerId => k <= j) - 1
  ELSE -1

\* session.players[i] is not undefined
HasPlayerAt(session, i) == (i + 1) \in DOMAIN session.players

PlayerAt(session, i) == session.players[i + 1]

\* const p = session.players[session.currentTurn];
\* p && session.connectedPlayers.has(p.id)
CurrentConnected(session) ==
  /\ HasPlayerAt(session, session.currentTurn)
  /\ PlayerAt(session, session.currentTurn).id \in session.connectedPlayers

\* "Only start timer if next player is connected", else "Pause game"
StartOrPause(session) ==
  IF CurrentConnected(session)
  THEN startTurnTimer(session)
  ELSE [session EXCEPT !.turnEndsAt = undefined]

\* now > deadline, for a deadline that is set
Elapsed(deadline) == deadline # undefined /\ Get(deadline) < 0

(* --------------------------- create-game ------------------------------ *)

NewSession(gameId) ==
  [id |-> gameId,
   players |-> << >>,
   currentTurn |-> 0,
   pendingQuestion |-> undefined,
   log |-> << >>,
   winnerId |-> undefined,
   turnEndsAt |-> undefined,
   questionEndsAt |-> undefined,
   connectedPlayers |-> {}]

\* Map.set(key, value)
MapSet(map, key, value) ==
  [k \in DOMAIN map \cup {key} |-> IF k = key THEN value ELSE map[k]]

\* Map.delete(key)
MapDelete(map, key) == [k \in DOMAIN map \ {key} |-> map[k]]

\* the record kept of the handler that ran last: ok is FALSE when it
\* returned early
Did(op, ok) == [op |-> op, ok |-> ok]

\* gameId is the value createGameId() returned
CreateGame(gameId) ==
  /\ sessions' = MapSet(sessions, gameId, NewSession(gameId))
  /\ last' = Did("create", TRUE)
  /\ UNCHANGED socketToPlayerId

(* ---------------------------- join-game ------------------------------- *)

\* session.players.find((p) => p.id === playerId) is not undefined
KnownPlayer(session, playerId) ==
  \E k \in DOMAIN session.players : session.players[k].id = playerId

\* join-game that pushes a player without looking for an existing one
JoinPlayers_AlwaysPush(session, playerId) ==
  [session EXCEPT
     !.players = Append(@, [id |-> playerId, position |-> 0]),
     !.connectedPlayers = @ \cup {playerId}]

\* join-game that puts a returning player back on the start field
JoinPlayers_ResetPosition(session, playerId) ==
  [session EXCEPT
     !.players = IF KnownPlayer(session, playerId)
                 THEN [k \in DOMAIN @ |->
                         IF @[k].id = playerId
                         THEN [@[k] EXCEPT !.position = 0]
                         ELSE @[k]]
                 ELSE Append(@, [id |-> playerId, position |-> 0]),
     !.connectedPlayers = @ \cup {playerId}]

\* lines 148-165: find the player or push a new one, mark it connected
JoinPlayers(session, playerId) ==
  [session EXCEPT
     !.players = IF KnownPlayer(session, playerId)
                 THEN @
                 ELSE Append(@, [id |-> playerId, position |-> 0]),
     !.connectedPlayers = @ \cup {playerId}]

\* lines 167-177: resume a paused game, or start it with the second player;
\* isRejoining is computed before the player is marked connected
\* the join that arms the turn deadline in a game already won
JoinTimer_IgnoreWinner(session, isRejoining) ==
  IF /\ isRejoining
     /\ Len(session.players) >= 2
     /\ session.turnEndsAt = undefined
  THEN IF CurrentConnected(session) THEN startTurnTimer(session) ELSE session
  ELSE IF /\ Len(session.players) = 2
          /\ session.turnEndsAt = undefined
       THEN startTurnTimer(session)
       ELSE session

\* the join that never resumes a paused game for a returning player
JoinTimer_NoResume(session, isRejoining) ==
  IF /\ ~isRejoining
     /\ Len(session.players) = 2
     /\ session.turnEndsAt = undefined
     /\ session.winnerId = undefined
  THEN startTurnTimer(session)
  ELSE session

JoinTimer(session, isRejoining) ==
  IF /\ isRejoining
     /\ Len(session.players) >= 2
     /\ session.turnEndsAt = undefined
     /\ session.winnerId = undefined
  THEN IF CurrentConnected(session) THEN startTurnTimer(session) ELSE session
  ELSE IF /\ Len(session.players) = 2
          /\ session.turnEndsAt = undefined
          /\ session.winnerId = undefined
       THEN startTurnTimer(session)
       ELSE session

JoinSession(session, playerId) ==
  JoinTimer(JoinPlayers(session, playerId),
            KnownPlayer(session, playerId)
              /\ playerId \notin session.connectedPlayers)

JoinGame(s, gameId, playerId) ==
  IF gameId \notin DOMAIN sessions
  THEN /\ last' = Did("join", FALSE)
       /\ UNCHANGED <<sessions, socketToPlayerId>>
  ELSE /\ socketToPlayerId' = MapSet(socketToPlayerId, s, playerId)
       /\ sessions' = [sessions EXCEPT
                         ![gameId] = JoinSession(sessions[gameId], playerId)]
       /\ last' = Did("join", TRUE)

(* ---------------------------- roll-dice ------------------------------- *)

\* roll-dice without the winnerId early return
RollAccepted_IgnoreWinner(s, gameId) ==
  /\ gameId \in DOMAIN sessions
  /\ s \in DOMAIN socketToPlayerId
  /\ LET session == sessions[gameId]
         playerId == socketToPlayerId[s]
     IN /\ HasPlayerAt(session, session.currentTurn)
        /\ PlayerAt(session, session.currentTurn).id = playerId
        /\ playerId \in session.connectedPlayers
        /\ session.pendingQuestion = undefined

\* roll-dice without the pendingQuestion early return
RollAccepted_IgnorePending(s, gameId) ==
  /\ gameId \in DOMAIN sessions
  /\ s \in DOMAIN socketToPlayerId
  /\ LET session == sessions[gameId]
         playerId == socketToPlayerId[s]
     IN /\ HasPlayerAt(session, session.currentTurn)
        /\ PlayerAt(session, session.currentTurn).id = playerId
        /\ playerId \in session.connectedPlayers
        /\ session.winnerId = undefined

\* lines 184-194: the early returns of the handler
RollAccepted(s, gameId) ==
  /\ gameId \in DOMAIN sessions
  /\ s \in DOMAIN socketToPlayerId
  /\ LET session == sessions[gameId]
         playerId == socketToPlayerId[s]
     IN /\ HasPlayerAt(session, session.currentTurn)
        /\ PlayerAt(session, session.currentTurn).id = playerId
        /\ playerId \in session.connectedPlayers
        /\ session.winnerId = undefined
        /\ session.pendingQuestion = undefined

\* the move without the clamp to the last field
RollMove_NoClamp(session, diceValue) ==
  [session EXCEPT
     !.players[session.currentTurn + 1].position = @ + diceValue,
     !.log = LogPush(@, "roll")]

\* lines 196-205: move the current player, clamped to the last field
RollMove(session, diceValue) ==
  LET newPosition ==
        Min(PlayerAt(session, session.currentTurn).position + diceValue,
            Len(board) - 1)
  IN [session EXCEPT
        !.players[session.currentTurn + 1].position = newPosition,
        !.log = LogPush(@, "roll")]

\* the win that leaves the turn deadline running
RollWin_KeepTimer(session) ==
  [session EXCEPT
     !.winnerId = Some(PlayerAt(session, session.currentTurn).id),
     !.log = LogPush(@, "win")]

\* lines 209-216
RollWin(session) ==
  [session EXCEPT
     !.winnerId = Some(PlayerAt(session, session.currentTurn).id),
     !.log = LogPush(@, "win"),
     !.turnEndsAt = undefined]

\* the question opened with the turn deadline left running
RollQuestion_KeepTurnTimer(session, randomQuestion) ==
  [session EXCEPT
     !.pendingQuestion = Some([playerId |-> PlayerAt(session, session.currentTurn).id,
                               questionId |-> randomQuestion.id]),
     !.questionEndsAt = Some(QUESTION_TIME_MS)]

\* lines 219-242: randomQuestion is the question drawn from questions
RollQuestion(session, randomQuestion) ==
  [session EXCEPT
     !.pendingQuestion = Some([playerId |-> PlayerAt(session, session.currentTurn).id,
                               questionId |-> randomQuestion.id]),
     !.questionEndsAt = Some(QUESTION_TIME_MS),
     !.turnEndsAt = undefined]

\* the turn passed on with a timer started whoever is next
RollNextTurn_AlwaysStart(session) ==
  startTurnTimer([session EXCEPT
                    !.currentTurn = (@ + 1) % Len(session.players)])

\* the turn passed on without wrapping around the player list
RollNextTurn_NoWrap(session) ==
  StartOrPause([session EXCEPT !.currentTurn = @ + 1])

\* lines 243-256
RollNextTurn(session) ==
  StartOrPause([session EXCEPT
                  !.currentTurn = (@ + 1) % Len(session.players)])

\* the roll that asks a question on every field short of the last
RollSession_AskEverywhere(session, diceValue, randomQuestion) ==
  LET moved == RollMove(session, diceValue)
      newPosition == PlayerAt(moved, moved.currentTurn).position
  IN IF newPosition >= Len(board) - 1
     THEN RollWin(moved)
     ELSE RollQuestion(moved, randomQuestion)

RollSession(session, diceValue, randomQuestion) ==
  LET moved == RollMove(session, diceValue)
      newPosition == PlayerAt(moved, moved.currentTurn).position
      field == board[newPosition + 1]
  IN IF newPosition >= Len(board) - 1
     THEN RollWin(moved)
     ELSE IF field.type = "BOOST" \/ field.type = "TRAP"
          THEN RollQuestion(moved, randomQuestion)
          ELSE RollNextTurn(moved)

\* the sessions a roll of diceValue can produce: one per question that
\* questions[Math.floor(Math.random() * questions.length)] draws
RollResults(session, diceValue) ==
  {RollSession(session, diceValue, questions[k]) :
     k \in DOMAIN questions}

RollDice(s, gameId) ==
  IF ~RollAccepted(s, gameId)
  THEN /\ last' = Did("roll", FALSE)
       /\ UNCHANGED <<sessions, socketToPlayerId>>
  ELSE /\ \E diceValue \in rollDice :
            \E next \in RollResults(sessions[gameId], diceValue) :
               sessions' = [sessions EXCEPT ![gameId] = next]
       /\ last' = Did("roll", TRUE)
       /\ UNCHANGED socketToPlayerId

(* -------------------------- answer-question --------------------------- *)

\* questions.find((q) => q.id === questionId) is not undefined
KnownQuestion(session, questionId) ==
  \E k \in DOMAIN questions : questions[k].id = questionId

FindQuestion(session, questionId) ==
  questions[CHOOSE k \in DOMAIN questions :
                      /\ questions[k].id = questionId
                      /\ \A j \in DOMAIN questions :
                           questions[j].id = questionId => k <= j]

\* lines 260-275: the early returns of the handler
AnswerAccepted(s, gameId, questionId) ==
  /\ gameId \in DOMAIN sessions
  /\ sessions[gameId].pendingQuestion # undefined
  /\ s \in DOMAIN socketToPlayerId
  /\ LET session == sessions[gameId]
         playerId == socketToPlayerId[s]
     IN /\ Get(session.pendingQuestion).playerId = playerId
        /\ playerId \in session.connectedPlayers
        /\ KnownQuestion(session, questionId)
        /\ KnownPlayer(session, playerId)

\* the comparison with the option index taken as 0-based
IsCorrect_ZeroBased(question, answerIndex) ==
  question.correctIndex = answerIndex - 1

\* line 278
IsCorrect(question, answerIndex) == question.correctIndex = answerIndex

\* the turn passed on from the acting player, not from the one who answered
NextTurnAfter_FromCurrent(session, playerId) ==
  StartOrPause([session EXCEPT
                  !.currentTurn = (@ + 1) % Len(session.players)])

\* lines 324-339: the turn passes to the player after the one who answered
NextTurnAfter(session, playerId) ==
  LET playerTurnIndex == FindIndex(session.players, playerId)
  IN StartOrPause(
       IF playerTurnIndex # -1
       THEN [session EXCEPT
               !.currentTurn = (playerTurnIndex + 1) % Len(session.players)]
       ELSE session)

\* lines 285-301: a correct answer on a BOOST field
AnswerBoost(session, playerId) ==
  LET k == FindIndex(session.players, playerId) + 1
      field == board[session.players[k].position + 1]
      newPosition == Min(session.players[k].position + FieldValue(field),
                         Len(board) - 1)
      moved == [session EXCEPT !.players[k].position = newPosition,
                               !.log = LogPush(@, "correct")]
  IN IF newPosition >= Len(board) - 1
     THEN [moved EXCEPT !.winnerId = Some(playerId),
                        !.log = LogPush(@, "win"),
                        !.turnEndsAt = undefined]
     ELSE NextTurnAfter(moved, playerId)

\* lines 309-316: a wrong answer on a TRAP field
AnswerTrap(session, playerId) ==
  LET k == FindIndex(session.players, playerId) + 1
      field == board[session.players[k].position + 1]
      newPosition == Max(0, session.players[k].position - FieldValue(field))
  IN NextTurnAfter([session EXCEPT !.players[k].position = newPosition,
                                   !.log = LogPush(@, "incorrect")],
                   playerId)

\* lines 277-340
AnswerSession(session, playerId, question, answerIndex) ==
  LET k == FindIndex(session.players, playerId) + 1
      field == board[session.players[k].position + 1]
      isCorrect == IsCorrect(question, answerIndex)
      cleared == [session EXCEPT !.pendingQuestion = undefined,
                                 !.questionEndsAt = undefined]
  IN IF field.type = "BOOST"
     THEN IF isCorrect
          THEN AnswerBoost(cleared, playerId)
          ELSE NextTurnAfter([cleared EXCEPT !.log = LogPush(@, "incorrect")],
                             playerId)
     ELSE IF field.type = "TRAP"
          THEN IF ~isCorrect
               THEN AnswerTrap(cleared, playerId)
               ELSE NextTurnAfter([cleared EXCEPT !.log = LogPush(@, "correct")],
                                  playerId)
          ELSE NextTurnAfter(cleared, playerId)

\* the session after the handler ran with these inputs
AnswerResult(s, gameId, questionId, answerIndex) ==
  IF AnswerAccepted(s, gameId, questionId)
  THEN AnswerSession(sessions[gameId], socketToPlayerId[s],
                     FindQuestion(sessions[gameId], questionId), answerIndex)
  ELSE sessions[gameId]

\* the handler run with payload {gameId, questionId, answerIndex}
AnswerWith(s, gameId, questionId, answerIndex) ==
  IF ~AnswerAccepted(s, gameId, questionId)
  THEN /\ last' = Did("answer", FALSE)
       /\ UNCHANGED <<sessions, socketToPlayerId>>
  ELSE /\ sessions' = [sessions EXCEPT
                         ![gameId] = AnswerResult(s, gameId, questionId,
                                                  answerIndex)]
       /\ last' = Did("answer", TRUE)
       /\ UNCHANGED socketToPlayerId

AnswerQuestion(s, gameId) ==
  \E questionId \in QuestionIds, answerIndex \in AnswerIndexes :
     AnswerWith(s, gameId, questionId, answerIndex)

(* --------------------------- restart-game ----------------------------- *)

\* the restart that leaves the open question in place
RestartSession_KeepPending(session) ==
  LET reset == [session EXCEPT
                  !.players = [k \in DOMAIN @ |-> [@[k] EXCEPT !.position = 0]],
                  !.currentTurn = 0,
                  !.winnerId = undefined,
                  !.turnEndsAt = undefined,
                  !.questionEndsAt = undefined,
                  !.log = << >>]
  IN IF Len(reset.players) >= 2 /\ CurrentConnected(reset)
     THEN startTurnTimer(reset)
     ELSE reset

\* the restart that starts the timer whatever the number of players
RestartSession_AnyCount(session) ==
  LET reset == [session EXCEPT
                  !.players = [k \in DOMAIN @ |-> [@[k] EXCEPT !.position = 0]],
                  !.currentTurn = 0,
                  !.winnerId = undefined,
                  !.pendingQuestion = undefined,
                  !.turnEndsAt = undefined,
                  !.questionEndsAt = undefined,
                  !.log = << >>]
  IN IF CurrentConnected(reset)
     THEN startTurnTimer(reset)
     ELSE reset

\* lines 347-362
RestartSession(session) ==
  LET reset == [session EXCEPT
                  !.players = [k \in DOMAIN @ |-> [@[k] EXCEPT !.position = 0]],
                  !.currentTurn = 0,
                  !.winnerId = undefined,
                  !.pendingQuestion = undefined,
                  !.turnEndsAt = undefined,
                  !.questionEndsAt = undefined,
                  !.log = << >>]
  IN IF Len(reset.players) >= 2 /\ CurrentConnected(reset)
     THEN startTurnTimer(reset)
     ELSE reset

\* the restart that resets every session of the registry
RestartGame_AllSessions(s, gameId) ==
  IF gameId \notin DOMAIN sessions
  THEN /\ last' = Did("restart", FALSE)
       /\ UNCHANGED <<sessions, socketToPlayerId>>
  ELSE /\ sessions' = [g \in DOMAIN sessions |-> RestartSession(sessions[g])]
       /\ last' = Did("restart", TRUE)
       /\ UNCHANGED socketToPlayerId

\* lines 343-365
RestartGame(s, gameId) ==
  IF gameId \notin DOMAIN sessions
  THEN /\ last' = Did("restart", FALSE)
       /\ UNCHANGED <<sessions, socketToPlayerId>>
  ELSE /\ sessions' = [sessions EXCEPT ![gameId] = RestartSession(@)]
       /\ last' = Did("restart", TRUE)
       /\ UNCHANGED socketToPlayerId

(* ----------------------------- disconnect ----------------------------- *)

\* the disconnect that leaves the turn deadline of the leaving player running
DisconnectSession_KeepTimer(session, playerId) ==
  IF playerId \in session.connectedPlayers
  THEN LET gone == [session EXCEPT !.connectedPlayers = @ \ {playerId}]
       IN IF /\ HasPlayerAt(gone, gone.currentTurn)
             /\ PlayerAt(gone, gone.currentTurn).id = playerId
          THEN [gone EXCEPT !.questionEndsAt = undefined,
                            !.log = LogPush(@, "pause")]
          ELSE gone
  ELSE session

\* the disconnect that leaves the answer deadline of the player who left
DisconnectSession_KeepQuestionTimer(session, playerId) ==
  IF playerId \in session.connectedPlayers
  THEN LET gone == [session EXCEPT !.connectedPlayers = @ \ {playerId}]
       IN IF /\ HasPlayerAt(gone, gone.currentTurn)
             /\ PlayerAt(gone, gone.currentTurn).id = playerId
          THEN [gone EXCEPT !.turnEndsAt = undefined,
                            !.log = LogPush(@, "pause")]
          ELSE gone
  ELSE session

\* lines 376-388: the body of sessions.forEach for one session
DisconnectSession(session, playerId) ==
  IF playerId \in session.connectedPlayers
  THEN LET gone == [session EXCEPT !.connectedPlayers = @ \ {playerId}]
       IN IF /\ HasPlayerAt(gone, gone.currentTurn)
             /\ PlayerAt(gone, gone.currentTurn).id = playerId
          THEN [gone EXCEPT !.turnEndsAt = undefined,
                            !.questionEndsAt = undefined,
                            !.log = LogPush(@, "pause")]
          ELSE gone
  ELSE session

\* the handler that stops after the first session of the registry
Disconnect_FirstSessionOnly(s) ==
  IF s \notin DOMAIN socketToPlayerId
  THEN /\ last' = Did("disconnect", FALSE)
       /\ UNCHANGED <<sessions, socketToPlayerId>>
  ELSE /\ socketToPlayerId' = MapDelete(socketToPlayerId, s)
       /\ sessions' = [g \in DOMAIN sessions |->
                         IF g = "G1"
                         THEN DisconnectSession(sessions[g], socketToPlayerId[s])
                         ELSE sessions[g]]
       /\ last' = Did("disconnect", TRUE)

Disconnect(s) ==
  IF s \notin DOMAIN socketToPlayerId
  THEN /\ last' = Did("disconnect", FALSE)
       /\ UNCHANGED <<sessions, socketToPlayerId>>
  ELSE /\ socketToPlayerId' = MapDelete(socketToPlayerId, s)
       /\ sessions' = [g \in DOMAIN sessions |->
                         DisconnectSession(sessions[g], socketToPlayerId[s])]
       /\ last' = Did("disconnect", TRUE)

(* ------------------------------- sweep -------------------------------- *)

\* the question timeout that leaves the question open
SweepQuestion_KeepPending(session) ==
  LET playerId == Get(session.pendingQuestion).playerId
      k == FindIndex(session.players, playerId) + 1
      field == board[session.players[k].position + 1]
      newPosition == Max(0, session.players[k].position - FieldValue(field))
      timedOut ==
        IF KnownPlayer(session, playerId) /\ playerId \in session.connectedPlayers
        THEN [(IF field.type = "TRAP"
               THEN [session EXCEPT !.players[k].position = newPosition,
                                    !.log = LogPush(@, "timeout")]
               ELSE [session EXCEPT !.log = LogPush(@, "timeout")])
              EXCEPT !.currentTurn = (k - 1 + 1) % Len(session.players)]
        ELSE session
  IN StartOrPause([timedOut EXCEPT !.questionEndsAt = undefined])

\* the question timeout that never moves the player back
SweepQuestion_NoTrap(session) ==
  LET playerId == Get(session.pendingQuestion).playerId
      k == FindIndex(session.players, playerId) + 1
      timedOut ==
        IF KnownPlayer(session, playerId) /\ playerId \in session.connectedPlayers
        THEN [session EXCEPT !.log = LogPush(@, "timeout"),
                             !.currentTurn = (k - 1 + 1) % Len(session.players)]
        ELSE session
  IN StartOrPause([timedOut EXCEPT !.pendingQuestion = undefined,
                                   !.questionEndsAt = undefined])

\* lines 403-448: the question deadline has passed
SweepQuestion(session) ==
  LET playerId == Get(session.pendingQuestion).playerId
      k == FindIndex(session.players, playerId) + 1
      field == board[session.players[k].position + 1]
      newPosition == Max(0, session.players[k].position - FieldValue(field))
      timedOut ==
        IF KnownPlayer(session, playerId) /\ playerId \in session.connectedPlayers
        THEN [(IF field.type = "TRAP"
               THEN [session EXCEPT !.players[k].position = newPosition,
                                    !.log = LogPush(@, "timeout")]
               ELSE [session EXCEPT !.log = LogPush(@, "timeout")])
              EXCEPT !.currentTurn = (k - 1 + 1) % Len(session.players)]
        ELSE session
  IN StartOrPause([timedOut EXCEPT !.pendingQuestion = undefined,
                                   !.questionEndsAt = undefined])

\* lines 451-478: the turn deadline has passed
SweepTurn(session) ==
  IF ~HasPlayerAt(session, session.currentTurn)
  THEN session
  ELSE IF PlayerAt(session, session.currentTurn).id \notin session.connectedPlayers
       THEN [session EXCEPT !.turnEndsAt = undefined]
       ELSE StartOrPause([session EXCEPT
                            !.log = LogPush(@, "skip"),
                            !.currentTurn = (@ + 1) % Len(session.players)])

\* lines 398-479: the body of sessions.forEach for one session
SweepSession(session) ==
  IF session.winnerId # undefined
  THEN session
  ELSE IF Elapsed(session.questionEndsAt) /\ session.pendingQuestion # undefined
       THEN SweepQuestion(session)
       ELSE IF Elapsed(session.turnEndsAt)
            THEN SweepTurn(session)
            ELSE session

\* the setInterval callback
Sweep ==
  /\ sessions' = [g \in DOMAIN sessions |-> SweepSession(sessions[g])]
  /\ last' = Did("sweep", TRUE)
  /\ UNCHANGED socketToPlayerId

(* ------------------------------- clock -------------------------------- *)

\* a deadline after Date.now() has advanced by ms
Later(deadline, ms) ==
  IF deadline = undefined
  THEN undefined
  ELSE IF Get(deadline) - ms < 0 THEN Some(-1) ELSE Some(Get(deadline) - ms)

\* Date.now() advances by TickMs
Tick ==
  /\ sessions' = [g \in DOMAIN sessions |->
                    [sessions[g] EXCEPT
                       !.turnEndsAt = Later(@, TickMs),
                       !.questionEndsAt = Later(@, TickMs)]]
  /\ last' = Did("tick", TRUE)
  /\ UNCHANGED socketToPlayerId

Init ==
  /\ sessions = << >>
  /\ socketToPlayerId = << >>
  /\ last = Did("init", TRUE)

Next ==
  \/ \E g \in GameIds : CreateGame(g)
  \/ \E c \in Clients, g \in GameIds : JoinGame(c[1], g, c[2])
  \/ \E s \in Sockets, g \in GameIds : RollDice(s, g)
  \/ \E s \in Sockets, g \in GameIds : AnswerQuestion(s, g)
  \/ \E s \in Sockets, g \in GameIds : RestartGame(s, g)
  \/ \E s \in Sockets : Disconnect(s)
  \/ Sweep
  \/ Tick

Spec == Init /\ [][Next]_vars

\* lines 397-480: setInterval runs the sweep every second for as long as the
\* server runs, and Date.now() keeps growing between two runs: neither the
\* sweep nor the passing of time can be put off forever
SpecLive == Init /\ [][Next]_vars /\ WF_vars(Sweep) /\ WF_vars(Tick)

(* -------------------- one player on two connections -------------------- *)

\* connections of a client that reconnects: s1 and s2 both belong to the
\* client of p1, s3 to the client of p2
SocketsRejoin == {"s1", "s2", "s3"}

\* The handlers when p1's client opens a second connection. The names are
\* given so that, whenever s1 and s2 are both bound, s2 is the younger
\* connection: a fresh s1 joins only while s2 is not bound, a fresh s2 only
\* while s1 is bound. A bound connection may send join-game again.
NextRejoin ==
  \/ \E g \in GameIds : CreateGame(g)
  \/ /\ "s1" \in DOMAIN socketToPlayerId \/ "s2" \notin DOMAIN socketToPlayerId
     /\ JoinGame("s1", "G1", "p1")
  \/ /\ "s1" \in DOMAIN socketToPlayerId \/ "s2" \in DOMAIN socketToPlayerId
     /\ JoinGame("s2", "G1", "p1")
  \/ JoinGame("s3", "G1", "p2")
  \/ \E s \in SocketsRejoin, g \in GameIds : RollDice(s, g)
  \/ \E s \in SocketsRejoin, g \in GameIds : AnswerQuestion(s, g)
  \/ \E s \in SocketsRejoin, g \in GameIds : RestartGame(s, g)
  \/ \E s \in SocketsRejoin : Disconnect(s)
  \/ Sweep
  \/ Tick

SpecRejoin == Init /\ [][NextRejoin]_vars

(* ------------------------- two sessions at once ----------------------- *)

\* game ids of a registry that holds two sessions
GameIdsTwo == {"G1", "G2"}

\* The handlers with two sessions in the registry. The whole game is played
\* in G1; G2 is a second session that only the first client joins and in
\* which nobody rolls, so that one player is connected in two sessions at
\* once while the registry stays small enough to enumerate.
NextTwo ==
  \/ \E g \in GameIdsTwo : CreateGame(g)
  \/ \E c \in Clients : JoinGame(c[1], "G1", c[2])
  \/ JoinGame("s1", "G2", "p1")
  \/ \E s \in Sockets : RollDice(s, "G1")
  \/ \E s \in Sockets : AnswerQuestion(s, "G1")
  \/ \E s \in Sockets, g \in GameIdsTwo : RestartGame(s, g)
  \/ \E s \in Sockets : Disconnect(s)
  \/ Sweep
  \/ Tick

SpecTwo == Init /\ [][NextTwo]_vars

\* The handlers with two sessions that are both played: the first client
\* joins G1 only and the second client G2 only, so each session is a game of
\* one player with its own rolls, questions and deadlines, and every handler
\* can be addressed to either session.
NextPair ==
  \/ \E g \in GameIdsTwo : CreateGame(g)
  \/ JoinGame("s1", "G1", "p1")
  \/ JoinGame("s2", "G2", "p2")
  \/ \E s \in Sockets, g \in GameIdsTwo : RollDice(s, g)
  \/ \E s \in Sockets, g \in GameIdsTwo : AnswerQuestion(s, g)
  \/ \E s \in Sockets, g \in GameIdsTwo : RestartGame(s, g)
  \/ \E s \in Sockets : Disconnect(s)
  \/ Sweep
  \/ Tick

SpecPair == Init /\ [][NextPair]_vars

(* --------------------------- createBoard alone ------------------------ *)

\* largest board length createBoard is called with
MaxBoardLen == 80

\* createBoard as a function of its argument: last records the call, with
\* the length passed and, once it has returned, the board returned
InitBoard ==
  /\ sessions = << >>
  /\ socketToPlayerId = << >>
  /\ last \in {[op |-> "createBoard", ok |-> FALSE, size |-> n] :
                 n \in 2..MaxBoardLen}

CallCreateBoard ==
  /\ last.op = "createBoard"
  /\ ~last.ok
  /\ last' = [op |-> "createBoard", ok |-> TRUE, size |-> last.size,
              board |-> createBoard(last.size)]
  /\ UNCHANGED <<sessions, socketToPlayerId>>

NextBoard == CallCreateBoard

SpecBoard == InitBoard /\ [][NextBoard]_vars

(* ---------------------------- events sent ----------------------------- *)

\* the payload of io.to(gameId).emit("game-state", session): the session
\* object as it is, with its board and its questions
GameState(session) ==
  [id |-> session.id,
   players |-> session.players,
   board |-> board,
   currentTurn |-> session.currentTurn,
   questions |-> questions,
   pendingQuestion |-> session.pendingQuestion,
   log |-> session.log,
   winnerId |-> session.winnerId,
   turnEndsAt |-> session.turnEndsAt,
   questionEndsAt |-> session.questionEndsAt,
   connectedPlayers |-> session.connectedPlayers]

\* lines 232-240: the payload of socket.emit("question", ...); the text and
\* the options of a question are not modelled
QuestionEvent(field, randomQuestion) ==
  [fieldType |-> field.type,
   value |-> FieldValue(field),
   question |-> [id |-> randomQuestion.id]]

\* lines 376-387: the disconnect handler emits for a session exactly when
\* the player was connected in it
DisconnectEmits(session, playerId) == playerId \in session.connectedPlayers

\* lines 399-477: the sweep reaches an emit for a session when it handles a
\* question timeout, or a turn timeout of a connected acting player
SweepEmits(session) ==
  /\ session.winnerId = undefined
  /\ \/ Elapsed(session.questionEndsAt) /\ session.pendingQuestion # undefined
     \/ /\ Elapsed(session.turnEndsAt)
        /\ HasPlayerAt(session, session.currentTurn)
        /\ PlayerAt(session, session.currentTurn).id \in session.connectedPlayers

\* the step just taken ended with a game-state broadcast to the room of
\* session gameId: lines 180, 214, 242, 255, 299, 340, 364, 387, 446, 477
GameStateSent(gameId) ==
  \/ /\ last' = Did("join", TRUE)
     /\ \E c \in Clients : JoinGame(c[1], gameId, c[2])
  \/ /\ last' = Did("roll", TRUE)
     /\ \E s \in Sockets : RollDice(s, gameId)
  \/ /\ last' = Did("answer", TRUE)
     /\ \E s \in Sockets : AnswerQuestion(s, gameId)
  \/ /\ last' = Did("restart", TRUE)
     /\ \E s \in Sockets : RestartGame(s, gameId)
  \/ /\ last' = Did("disconnect", TRUE)
     /\ gameId \in DOMAIN sessions
     /\ \E s \in DOMAIN socketToPlayerId :
           /\ socketToPlayerId' = MapDelete(socketToPlayerId, s)
           /\ DisconnectEmits(sessions[gameId], socketToPlayerId[s])
  \/ /\ last' = Did("sweep", TRUE)
     /\ gameId \in DOMAIN sessions
     /\ SweepEmits(sessions[gameId])

(* ------------------------ vocabulary of the claims -------------------- *)

TurnDeadlineSet(session) == session.turnEndsAt # undefined

AnswerDeadlineSet(session) == session.questionEndsAt # undefined

PendingOpen(session) == session.pendingQuestion # undefined

HasWinner(session) == session.winnerId # undefined

LastIndex(session) == Len(board) - 1

\* the number of TRUE members of a sequence of booleans
CountTrue(flags) == Cardinality({k \in DOMAIN flags : flags[k]})

(* ------------------------------- claims ------------------------------- *)

\* C1: in every reachable state no session has both a turn deadline and an
\* answer deadline set.
C1_DeadlinesExclusive ==
  \A g \in DOMAIN sessions :
     ~(TurnDeadlineSet(sessions[g]) /\ AnswerDeadlineSet(sessions[g]))

\* a join re-armed the turn deadline while a question was pending, which
\* dropped the answer deadline the roll had armed
C1_Witness ==
  /\ last = Did("join", TRUE)
  /\ \E g \in DOMAIN sessions :
        /\ PendingOpen(sessions[g])
        /\ TurnDeadlineSet(sessions[g])
        /\ ~AnswerDeadlineSet(sessions[g])

\* C2: whenever a PendingAnswer is open its playerId is the id of
\* players[currentTurn].
C2_PendingOwnerActs ==
  \A g \in DOMAIN sessions :
     PendingOpen(sessions[g]) =>
        /\ HasPlayerAt(sessions[g], sessions[g].currentTurn)
        /\ PlayerAt(sessions[g], sessions[g].currentTurn).id
             = Get(sessions[g].pendingQuestion).playerId

\* C3: whenever a PendingAnswer is open no turn deadline is armed.
C3_NoTurnDeadlineWhilePending ==
  \A g \in DOMAIN sessions :
     PendingOpen(sessions[g]) => ~TurnDeadlineSet(sessions[g])

\* C4 as stated: exactly one of turn deadline set, answer deadline set,
\* winner set, fewer than 2 players connected holds.
C4_ExactlyOneOfFour ==
  \A g \in DOMAIN sessions :
     CountTrue(<< TurnDeadlineSet(sessions[g]),
                  AnswerDeadlineSet(sessions[g]),
                  HasWinner(sessions[g]),
                  Cardinality(sessions[g].connectedPlayers) < 2 >>) = 1

\* C4 as amended: at most one of turn deadline set, answer deadline set,
\* winner set holds.
C4_AtMostOneOfThree ==
  \A g \in DOMAIN sessions :
     CountTrue(<< TurnDeadlineSet(sessions[g]),
                  AnswerDeadlineSet(sessions[g]),
                  HasWinner(sessions[g]) >>) <= 1

\* a roll reached the last field while the turn deadline was running and at
\* least two players were connected: the winner is the only one of the three
C4_Witness ==
  /\ last = Did("roll", TRUE)
  /\ \E g \in DOMAIN sessions :
        /\ HasWinner(sessions[g])
        /\ Cardinality(sessions[g].connectedPlayers) >= 2
        /\ ~TurnDeadlineSet(sessions[g])
        /\ ~AnswerDeadlineSet(sessions[g])

\* C5: in a session with a winner every roll-dice and answer-question returns
\* early and, like the sweep, leaves the session as it is; and no handler
\* other than restart-game (and create-game, which replaces the session by a
\* new one) changes winnerId.
C5_WinTerminal ==
  [][\A g \in DOMAIN sessions :
       HasWinner(sessions[g]) =>
         /\ last'.op \in {"roll", "answer"} =>
              ~last'.ok /\ sessions' = sessions
         /\ last'.op = "sweep" =>
              g \in DOMAIN sessions' /\ sessions'[g] = sessions[g]
         /\ last'.op \notin {"restart", "create"} =>
              /\ g \in DOMAIN sessions'
              /\ sessions'[g].winnerId = sessions[g].winnerId]_vars

\* the winner's roll was turned down
C5_Witness ==
  /\ last = Did("roll", FALSE)
  /\ \E g \in DOMAIN sessions :
        /\ HasWinner(sessions[g])
        /\ \E s \in DOMAIN socketToPlayerId :
              /\ Get(sessions[g].winnerId) = socketToPlayerId[s]
              /\ socketToPlayerId[s] \in sessions[g].connectedPlayers

\* C6 as stated: answer-question changes nothing unless a PendingAnswer is
\* open, it belongs to the requester, the requester is connected and the
\* submitted questionId is the pending one; an accepted answer is judged
\* against the pending question's correctIndex.
C6_AnswerNeedsPendingQuestionId ==
  [][\A s \in Sockets, g \in GameIds, q \in QuestionIds, a \in AnswerIndexes :
       (last'.op = "answer" /\ g \in DOMAIN sessions /\ AnswerWith(s, g, q, a)) =>
          LET session == sessions[g]
              legal ==
                /\ PendingOpen(session)
                /\ s \in DOMAIN socketToPlayerId
                /\ Get(session.pendingQuestion).playerId = socketToPlayerId[s]
                /\ socketToPlayerId[s] \in session.connectedPlayers
                /\ Get(session.pendingQuestion).questionId = q
          IN IF legal
             THEN sessions'[g] =
                    AnswerSession(session, socketToPlayerId[s],
                                  FindQuestion(session,
                                               Get(session.pendingQuestion).questionId),
                                  a)
             ELSE sessions' = sessions]_vars

\* the ids of the players of a session
PlayerIdsOf(session) == {session.players[k].id : k \in DOMAIN session.players}

\* C7: the player list never holds a playerId twice, and a join of playerId
\* makes the ids of the list the old ids plus playerId, one entry per id, so
\* that joins by N distinct ids since creation leave exactly N players.
C7_JoinIdempotent ==
  /\ [](\A g \in DOMAIN sessions :
          Len(sessions[g].players) = Cardinality(PlayerIdsOf(sessions[g])))
  /\ [][\A c \in Clients, g \in GameIds :
          (last'.op = "join" /\ g \in DOMAIN sessions /\ JoinGame(c[1], g, c[2])) =>
             /\ PlayerIdsOf(sessions'[g]) = PlayerIdsOf(sessions[g]) \cup {c[2]}
             /\ Len(sessions'[g].players) = Cardinality(PlayerIdsOf(sessions'[g]))
             /\ c[2] \in PlayerIdsOf(sessions[g]) =>
                  Len(sessions'[g].players) = Len(sessions[g].players)]_vars

\* a join by a player who has already moved: both players are past the start
\* field, so the joining id was in the list
C7_Witness ==
  /\ last = Did("join", TRUE)
  /\ \E g \in DOMAIN sessions :
        /\ Len(sessions[g].players) = 2
        /\ \A k \in DOMAIN sessions[g].players : sessions[g].players[k].position > 0

\* C8 as stated: unless the join raises the number of connected players from
\* below 2 to at least 2, or reconnects the acting player while no deadline
\* runs and there is no winner, it leaves both deadlines as they were.
C8_JoinArmsOnlyWhenResuming ==
  [][\A c \in Clients, g \in GameIds :
       (last'.op = "join" /\ g \in DOMAIN sessions /\ JoinGame(c[1], g, c[2])) =>
          LET before == sessions[g]
              after == sessions'[g]
              raises ==
                /\ Cardinality(before.connectedPlayers) < 2
                /\ Cardinality(after.connectedPlayers) >= 2
              reconnectsActing ==
                /\ c[2] \notin before.connectedPlayers
                /\ HasPlayerAt(before, before.currentTurn)
                /\ PlayerAt(before, before.currentTurn).id = c[2]
                /\ ~TurnDeadlineSet(before)
                /\ ~AnswerDeadlineSet(before)
                /\ ~HasWinner(before)
          IN (raises \/ reconnectsActing)
             \/ /\ after.turnEndsAt = before.turnEndsAt
                /\ after.questionEndsAt = before.questionEndsAt]_vars

\* the requester of roll-dice may roll: the session exists, has no winner and
\* no open PendingAnswer, and the socket's player is the connected acting player
C9_MayRoll(s, g) ==
  /\ g \in DOMAIN sessions
  /\ ~HasWinner(sessions[g])
  /\ ~PendingOpen(sessions[g])
  /\ s \in DOMAIN socketToPlayerId
  /\ HasPlayerAt(sessions[g], sessions[g].currentTurn)
  /\ PlayerAt(sessions[g], sessions[g].currentTurn).id = socketToPlayerId[s]
  /\ socketToPlayerId[s] \in sessions[g].connectedPlayers

\* C9: a roll-dice whose requester may not roll returns early and leaves every
\* session (positions, log, deadlines) as it is.
C9_IllegalRollIsNoOp ==
  [][\A s \in Sockets, g \in GameIds :
       (last'.op = "roll" /\ ~C9_MayRoll(s, g) /\ RollDice(s, g)) =>
          ~last'.ok /\ sessions' = sessions]_vars

\* a roll was turned down while the acting player, connected and bound to a
\* socket, had a question pending
C9_Witness ==
  /\ last = Did("roll", FALSE)
  /\ \E g \in DOMAIN sessions, s \in DOMAIN socketToPlayerId :
        /\ PendingOpen(sessions[g])
        /\ ~HasWinner(sessions[g])
        /\ CurrentConnected(sessions[g])
        /\ PlayerAt(sessions[g], sessions[g].currentTurn).id = socketToPlayerId[s]

\* C10: an accepted roll-dice changes one session only and moves its acting
\* player, and nobody else, to
\* min(old + d, last index) for a d in 1..6; when that is the last index the
\* acting player is the winner, both deadlines are unset, no PendingAnswer is
\* open and currentTurn is unchanged.
C10_RollMovesAndWins ==
  [][last' = Did("roll", TRUE) =>
       \E g \in DOMAIN sessions :
          LET before == sessions[g]
              after == sessions'[g]
              k == before.currentTurn + 1
          IN /\ \A h \in DOMAIN sessions \ {g} : sessions'[h] = sessions[h]
             /\ \E d \in 1..6 :
                  after.players[k].position
                    = Min(before.players[k].position + d, LastIndex(before))
             /\ \A j \in DOMAIN before.players :
                  j # k => after.players[j] = before.players[j]
             /\ after.players[k].position = LastIndex(before) =>
                  /\ after.winnerId = Some(before.players[k].id)
                  /\ ~TurnDeadlineSet(after)
                  /\ ~AnswerDeadlineSet(after)
                  /\ ~PendingOpen(after)
                  /\ after.currentTurn = before.currentTurn]_vars

\* a roll that took the acting player from below the last field onto it,
\* with the other player still on the board
C10_Witness ==
  /\ last = Did("roll", TRUE)
  /\ \E g \in DOMAIN sessions :
        /\ Len(sessions[g].players) = 2
        /\ HasWinner(sessions[g])
        /\ PlayerAt(sessions[g], sessions[g].currentTurn).position
             = LastIndex(sessions[g])
        /\ PlayerAt(sessions[g], sessions[g].currentTurn).id
             = Get(sessions[g].winnerId)

\* the field the player at index k of the session stands on
FieldOf(session, k) == board[session.players[k].position + 1]

\* C11: an accepted roll-dice that lands the acting player below the last
\* index on a BOOST or TRAP field opens a PendingAnswer for that player with
\* the id of one of the session's questions, sets the answer deadline
\* QUESTION_TIME_MS ahead, unsets the turn deadline and leaves currentTurn
\* as it was.
C11_RollOpensQuestion ==
  [][last' = Did("roll", TRUE) =>
       \E g \in DOMAIN sessions :
          LET before == sessions[g]
              after == sessions'[g]
              k == before.currentTurn + 1
          IN /\ \A h \in DOMAIN sessions \ {g} : sessions'[h] = sessions[h]
             /\ after # before
             /\ (/\ after.players[k].position < LastIndex(after)
                 /\ FieldOf(after, k).type \in {"BOOST", "TRAP"})
                => /\ \E q \in DOMAIN questions :
                        after.pendingQuestion
                          = Some([playerId |-> before.players[k].id,
                                  questionId |-> questions[q].id])
                   /\ after.questionEndsAt = Some(QUESTION_TIME_MS)
                   /\ ~TurnDeadlineSet(after)
                   /\ after.currentTurn = before.currentTurn]_vars

\* a roll that put the acting player of a two-player game on a TRAP field
\* and opened a question for them
C11_Witness ==
  /\ last = Did("roll", TRUE)
  /\ \E g \in DOMAIN sessions :
        /\ Len(sessions[g].players) = 2
        /\ PendingOpen(sessions[g])
        /\ AnswerDeadlineSet(sessions[g])
        /\ FieldOf(sessions[g], sessions[g].currentTurn + 1).type = "TRAP"
        /\ Get(sessions[g].pendingQuestion).playerId
             = PlayerAt(sessions[g], sessions[g].currentTurn).id

\* C12: an accepted roll-dice that lands the acting player below the last
\* index on a NORMAL field moves currentTurn to (currentTurn + 1) modulo the
\* number of players and leaves no PendingAnswer open; when the new acting
\* player is connected the turn deadline is set TURN_TIME_MS ahead, otherwise
\* it is unset; the answer deadline is unset either way.
C12_RollPassesTurn ==
  [][last' = Did("roll", TRUE) =>
       \E g \in DOMAIN sessions :
          LET before == sessions[g]
              after == sessions'[g]
              k == before.currentTurn + 1
          IN /\ \A h \in DOMAIN sessions \ {g} : sessions'[h] = sessions[h]
             /\ after # before
             /\ (/\ after.players[k].position < LastIndex(after)
                 /\ FieldOf(after, k).type = "NORMAL")
                => /\ after.currentTurn
                        = (before.currentTurn + 1) % Len(before.players)
                   /\ ~PendingOpen(after)
                   /\ ~AnswerDeadlineSet(after)
                   /\ after.turnEndsAt
                        = (IF CurrentConnected(after)
                           THEN Some(TURN_TIME_MS)
                           ELSE undefined)]_vars

\* a roll onto a NORMAL field that passed the turn to a disconnected player,
\* so that no deadline is running
C12_Witness ==
  /\ last = Did("roll", TRUE)
  /\ \E g \in DOMAIN sessions :
        /\ Len(sessions[g].players) = 2
        /\ ~HasWinner(sessions[g])
        /\ ~PendingOpen(sessions[g])
        /\ ~CurrentConnected(sessions[g])
        /\ ~TurnDeadlineSet(sessions[g])
        /\ \E k \in DOMAIN sessions[g].players :
              /\ k # sessions[g].currentTurn + 1
              /\ sessions[g].players[k].position > 0
              /\ FieldOf(sessions[g], k).type = "NORMAL"

\* option a is the correct option of the question with id q
CorrectOption(q, a) ==
  \E i \in DOMAIN questions :
     questions[i].id = q /\ questions[i].correctIndex = a

\* C13: in every reachable state, an answer-question {questionId q,
\* answerIndex a} that the handler accepts leaves the owner of the question,
\* who stood at old on a field of magnitude m, at min(old + m, last index)
\* when the field is BOOST and a is the correct option of q, at
\* max(0, old - m) when the field is TRAP and a is not, and at old when the
\* field is BOOST and a is not correct or the field is TRAP and a is correct;
\* a BOOST move onto the last index makes the owner the winner.
C13_AnswerMovesOwner ==
  \A s \in Sockets, g \in GameIds, q \in QuestionIds, a \in AnswerIndexes :
     AnswerAccepted(s, g, q) =>
          LET before == sessions[g]
              after == AnswerResult(s, g, q, a)
              owner == Get(before.pendingQuestion).playerId
              k == FindIndex(before.players, owner) + 1
              field == FieldOf(before, k)
              old == before.players[k].position
              new == after.players[k].position
          IN /\ (field.type = "BOOST" /\ CorrectOption(q, a)) =>
                  /\ new = Min(old + FieldValue(field), LastIndex(before))
                  /\ new = LastIndex(before) => after.winnerId = Some(owner)
             /\ (field.type = "TRAP" /\ ~CorrectOption(q, a)) =>
                  new = Max(0, old - FieldValue(field))
             /\ (field.type = "BOOST" /\ ~CorrectOption(q, a)) => new = old
             /\ (field.type = "TRAP" /\ CorrectOption(q, a)) => new = old

\* a correct answer on a BOOST field carried its owner past the end of the
\* board: the owner stands on the last index and has won, the other player
\* is still on the board
C13_Witness ==
  /\ last = Did("answer", TRUE)
  /\ \E g \in DOMAIN sessions :
        /\ Len(sessions[g].players) = 2
        /\ HasWinner(sessions[g])
        /\ \E k \in DOMAIN sessions[g].players :
              /\ sessions[g].players[k].id = Get(sessions[g].winnerId)
              /\ sessions[g].players[k].position = LastIndex(sessions[g])
        /\ \E k \in DOMAIN sessions[g].players :
              sessions[g].players[k].position < LastIndex(sessions[g])

\* C14: an accepted answer-question leaves the session with no PendingAnswer
\* and no answer deadline, whatever the answer; when it leaves no winner,
\* currentTurn is (index of the owner + 1) modulo the number of players and
\* the turn deadline is set TURN_TIME_MS ahead when the new acting player is
\* connected and unset otherwise.
C14_AnswerClearsAndPassesTurn ==
  [][last' = Did("answer", TRUE) =>
       \E g \in DOMAIN sessions :
          LET before == sessions[g]
              after == sessions'[g]
              owner == Get(before.pendingQuestion).playerId
          IN /\ \A h \in DOMAIN sessions \ {g} : sessions'[h] = sessions[h]
             /\ PendingOpen(before)
             /\ ~PendingOpen(after)
             /\ ~AnswerDeadlineSet(after)
             /\ ~HasWinner(after) =>
                  /\ after.currentTurn
                       = (FindIndex(before.players, owner) + 1)
                           % Len(before.players)
                  /\ after.turnEndsAt
                       = (IF CurrentConnected(after)
                          THEN Some(TURN_TIME_MS)
                          ELSE undefined)]_vars

\* an answer was accepted and the turn passed to a player who is not
\* connected, so that no deadline is running
C14_Witness ==
  /\ last = Did("answer", TRUE)
  /\ \E g \in DOMAIN sessions :
        /\ Len(sessions[g].players) = 2
        /\ ~HasWinner(sessions[g])
        /\ ~PendingOpen(sessions[g])
        /\ ~CurrentConnected(sessions[g])
        /\ ~TurnDeadlineSet(sessions[g])
        /\ ~AnswerDeadlineSet(sessions[g])

\* two sessions that differ at most in their logs
SameButLog(a, b) == [a EXCEPT !.log = << >>] = [b EXCEPT !.log = << >>]

\* C15: in every reachable state where a PendingAnswer is open and the answer
\* deadline has passed, the owner of the question is able to answer, and the
\* session the sweep produces equals, up to the log, the session produced by
\* the owner answering any question with an option that is not its correct
\* one: the owner is moved back by the magnitude, floored at 0, on a TRAP
\* field and stays on a BOOST field.
C15_TimeoutIsWrongAnswer ==
  \A g \in DOMAIN sessions :
     (PendingOpen(sessions[g]) /\ Elapsed(sessions[g].questionEndsAt)) =>
        LET session == sessions[g]
            owner == Get(session.pendingQuestion).playerId
            k == FindIndex(session.players, owner) + 1
            field == FieldOf(session, k)
            old == session.players[k].position
            swept == SweepSession(session)
        IN /\ swept.players[k].position
                = (IF field.type = "TRAP"
                   THEN Max(0, old - FieldValue(field))
                   ELSE old)
           /\ \E s \in DOMAIN socketToPlayerId :
                 /\ socketToPlayerId[s] = owner
                 /\ AnswerAccepted(s, g, Get(session.pendingQuestion).questionId)
                 /\ \A q \in QuestionIds, a \in AnswerIndexes :
                      (AnswerAccepted(s, g, q) /\ ~CorrectOption(q, a)) =>
                         SameButLog(swept, AnswerResult(s, g, q, a))

\* the sweep timed out the question of the first player on the TRAP field 5
\* and moved them back to 3; the turn passed to the second player
C15_Witness ==
  /\ last = Did("sweep", TRUE)
  /\ \E g \in DOMAIN sessions :
        /\ Len(sessions[g].players) = 2
        /\ sessions[g].log = <<"timeout">>
        /\ ~PendingOpen(sessions[g])
        /\ sessions[g].players[1].position = 3
        /\ sessions[g].players[2].position = 0
        /\ sessions[g].currentTurn = 1

\* C16: a sweep that finds the turn deadline of a session without a winner
\* passed pushes a skip entry on the log, leaves every position as it is,
\* moves currentTurn to (currentTurn + 1) modulo the number of players, and
\* sets the turn deadline TURN_TIME_MS ahead when the new acting player is
\* connected and leaves the session with no deadline otherwise.
C16_SweepSkipsTurn ==
  [][last' = Did("sweep", TRUE) =>
       \A g \in DOMAIN sessions :
          LET before == sessions[g]
              after == sessions'[g]
          IN (Elapsed(before.turnEndsAt) /\ ~HasWinner(before)) =>
                /\ after.log = LogPush(before.log, "skip")
                /\ after.players = before.players
                /\ after.currentTurn
                     = (before.currentTurn + 1) % Len(before.players)
                /\ IF CurrentConnected(after)
                   THEN after.turnEndsAt = Some(TURN_TIME_MS)
                   ELSE ~TurnDeadlineSet(after) /\ ~AnswerDeadlineSet(after)]_vars

\* player p is the acting player of the session
IsActing(session, p) ==
  /\ HasPlayerAt(session, session.currentTurn)
  /\ PlayerAt(session, session.currentTurn).id = p

\* C17: the disconnect of a socket bound to player p takes p out of the
\* connected set of every session in which p is connected; in each of these
\* sessions where p is the acting player both deadlines are unset and a pause
\* entry is pushed on the log; in every session where p is not the acting
\* player the two deadlines, currentTurn, the players with their positions
\* and the PendingAnswer are as before.
C17_DisconnectEffect ==
  [][last' = Did("disconnect", TRUE) =>
       \E s \in DOMAIN socketToPlayerId :
          /\ socketToPlayerId' = MapDelete(socketToPlayerId, s)
          /\ DOMAIN sessions' = DOMAIN sessions
          /\ \A g \in DOMAIN sessions :
                LET before == sessions[g]
                    after == sessions'[g]
                    p == socketToPlayerId[s]
                IN /\ p \in before.connectedPlayers =>
                        /\ after.connectedPlayers = before.connectedPlayers \ {p}
                        /\ IsActing(before, p) =>
                             /\ ~TurnDeadlineSet(after)
                             /\ ~AnswerDeadlineSet(after)
                             /\ after.log = LogPush(before.log, "pause")
                   /\ ~IsActing(before, p) =>
                        /\ after.turnEndsAt = before.turnEndsAt
                        /\ after.questionEndsAt = before.questionEndsAt
                        /\ after.currentTurn = before.currentTurn
                        /\ after.players = before.players
                        /\ after.pendingQuestion = before.pendingQuestion]_vars

\* the first player has left both sessions: in G2, where they were the acting
\* player, the pause is logged and no deadline runs; in G1 the second player
\* is the acting player and their question with its deadline is untouched
C17_Witness ==
  /\ last = Did("disconnect", TRUE)
  /\ DOMAIN sessions = GameIdsTwo
  /\ "s1" \notin DOMAIN socketToPlayerId
  /\ KnownPlayer(sessions["G2"], "p1")
  /\ "p1" \notin sessions["G2"].connectedPlayers
  /\ sessions["G2"].log = <<"pause">>
  /\ KnownPlayer(sessions["G1"], "p1")
  /\ "p1" \notin sessions["G1"].connectedPlayers
  /\ IsActing(sessions["G1"], "p2")
  /\ PendingOpen(sessions["G1"])
  /\ AnswerDeadlineSet(sessions["G1"])

\* the only connected player of the session is its acting player
SoleConnectedActing(session) ==
  /\ Cardinality(session.connectedPlayers) = 1
  /\ HasPlayerAt(session, session.currentTurn)
  /\ session.connectedPlayers = {PlayerAt(session, session.currentTurn).id}

\* the session right after its sole connected player left during their turn
JustPaused(session) ==
  /\ last = Did("disconnect", TRUE)
  /\ session.connectedPlayers = {}
  /\ session.log # << >>
  /\ session.log[Len(session.log)] = "pause"

\* C18: when the sole connected player disconnects during their own turn the
\* turn deadline is unset and a pause entry is logged; from then on, as long
\* as fewer than two players are connected, no turn deadline is set and no
\* sweep moves currentTurn or logs a skip, not even when that player alone
\* reconnects. The formula states this for the disconnect and for the step
\* that follows it.
C18_PausedBelowTwoConnected ==
  [][\A g \in DOMAIN sessions \cap DOMAIN sessions' :
       LET before == sessions[g]
           after == sessions'[g]
       IN /\ (/\ last' = Did("disconnect", TRUE)
              /\ SoleConnectedActing(before)
              /\ after.connectedPlayers = {})
             => /\ ~TurnDeadlineSet(after)
                /\ after.log = LogPush(before.log, "pause")
          /\ (/\ JustPaused(before)
              /\ Cardinality(after.connectedPlayers) < 2)
             => /\ ~TurnDeadlineSet(after)
                /\ last'.op = "sweep" =>
                     /\ after.currentTurn = before.currentTurn
                     /\ after.log = before.log]_vars

\* C18 amended: when the sole connected player disconnects during their own
\* turn both deadlines are unset and a pause entry is logged; as long as no
\* player is connected, a session without a turn deadline gets none and no
\* sweep moves its currentTurn or logs a skip; when the acting player then
\* reconnects alone to a session of at least two players without a winner,
\* the turn deadline is set TURN_TIME_MS ahead.
C18_PausedWhileNobodyConnected ==
  [][\A g \in DOMAIN sessions \cap DOMAIN sessions' :
       LET before == sessions[g]
           after == sessions'[g]
       IN /\ (/\ last' = Did("disconnect", TRUE)
              /\ SoleConnectedActing(before)
              /\ after.connectedPlayers = {})
             => /\ ~TurnDeadlineSet(after)
                /\ ~AnswerDeadlineSet(after)
                /\ after.log = LogPush(before.log, "pause")
          /\ (/\ before.connectedPlayers = {}
              /\ ~TurnDeadlineSet(before)
              /\ after.connectedPlayers = {})
             => /\ ~TurnDeadlineSet(after)
                /\ last'.op = "sweep" =>
                     /\ after.currentTurn = before.currentTurn
                     /\ after.log = before.log
          /\ (/\ last' = Did("join", TRUE)
              /\ before.connectedPlayers = {}
              /\ ~TurnDeadlineSet(before)
              /\ ~HasWinner(before)
              /\ Len(before.players) >= 2
              /\ SoleConnectedActing(after))
             => after.turnEndsAt = Some(TURN_TIME_MS)]_vars

\* the acting player of a two-player session came back alone after the pause
\* and their turn deadline runs again
C18_Witness ==
  /\ last = Did("join", TRUE)
  /\ \E g \in DOMAIN sessions :
        /\ Len(sessions[g].players) = 2
        /\ SoleConnectedActing(sessions[g])
        /\ sessions[g].log = <<"pause">>
        /\ sessions[g].turnEndsAt = Some(TURN_TIME_MS)
        /\ ~HasWinner(sessions[g])

\* C19: restart-game on a known session, whatever its state, puts every
\* player on position 0, sets currentTurn to 0, unsets winnerId, the
\* PendingAnswer and the answer deadline, empties the log, leaves the turn
\* deadline unset or freshly set TURN_TIME_MS ahead, and keeps the players,
\* their order and the connected set; no other session changes.
C19_RestartResets ==
  [][last' = Did("restart", TRUE) =>
       \E g \in DOMAIN sessions :
          LET before == sessions[g]
              after == sessions'[g]
          IN /\ \A h \in DOMAIN sessions \ {g} : sessions'[h] = sessions[h]
             /\ Len(after.players) = Len(before.players)
             /\ \A k \in DOMAIN before.players :
                   /\ after.players[k].id = before.players[k].id
                   /\ after.players[k].position = 0
             /\ after.currentTurn = 0
             /\ ~HasWinner(after)
             /\ ~PendingOpen(after)
             /\ ~AnswerDeadlineSet(after)
             /\ after.turnEndsAt \in {undefined, Some(TURN_TIME_MS)}
             /\ after.log = << >>
             /\ after.connectedPlayers = before.connectedPlayers
             /\ after.id = before.id]_vars

\* a restart of a two-player session in which one player is connected
C19_Witness ==
  /\ last = Did("restart", TRUE)
  /\ \E g \in DOMAIN sessions :
        /\ Len(sessions[g].players) = 2
        /\ Cardinality(sessions[g].connectedPlayers) = 1
        /\ \A k \in DOMAIN sessions[g].players :
              sessions[g].players[k].position = 0
        /\ sessions[g].log = << >>

\* the first player of the session exists and is connected
FirstPlayerConnected(session) ==
  /\ Len(session.players) >= 1
  /\ session.players[1].id \in session.connectedPlayers

\* C20: restart-game leaves the turn deadline set if and only if at least two
\* players are connected and player 0 is connected; with fewer than two
\* connected players it leaves the session without a deadline.
C20_RestartArmsIffTwoConnected ==
  [][last' = Did("restart", TRUE) =>
       \E g \in DOMAIN sessions :
          LET after == sessions'[g]
          IN /\ \A h \in DOMAIN sessions \ {g} : sessions'[h] = sessions[h]
             /\ TurnDeadlineSet(after)
                  <=> /\ Cardinality(after.connectedPlayers) >= 2
                      /\ FirstPlayerConnected(after)
             /\ Cardinality(after.connectedPlayers) < 2 =>
                  ~TurnDeadlineSet(after) /\ ~AnswerDeadlineSet(after)]_vars

\* C20 amended: restart-game leaves the turn deadline set, TURN_TIME_MS
\* ahead, if and only if at least two players have joined the session and
\* player 0 is connected; the answer deadline is unset either way.
C20_RestartArmsIffTwoJoined ==
  [][last' = Did("restart", TRUE) =>
       \E g \in DOMAIN sessions :
          LET after == sessions'[g]
          IN /\ \A h \in DOMAIN sessions \ {g} : sessions'[h] = sessions[h]
             /\ after.turnEndsAt
                  = (IF Len(after.players) >= 2 /\ FirstPlayerConnected(after)
                     THEN Some(TURN_TIME_MS)
                     ELSE undefined)
             /\ ~AnswerDeadlineSet(after)]_vars

\* a restart started the turn timer of player 0, the only connected player
\* of a two-player session
C20_Witness ==
  /\ last = Did("restart", TRUE)
  /\ \E g \in DOMAIN sessions :
        /\ Len(sessions[g].players) = 2
        /\ sessions[g].connectedPlayers = {sessions[g].players[1].id}
        /\ sessions[g].turnEndsAt = Some(TURN_TIME_MS)

\* the board createBoard returned has a field for each index 0..size-1, in
\* order
BoardIndexed(b, size) ==
  /\ Len(b) = size
  /\ \A k \in 1..size : b[k].index = k - 1

\* the field is NORMAL, without magnitude
IsNormal(field) == field.type = "NORMAL" /\ "value" \notin DOMAIN field

\* the field at index i follows the divisibility rule
ByDivisibility(field, i) ==
  IF i % 7 = 0 THEN field.type = "BOOST" /\ field.value = 3
  ELSE IF i % 5 = 0 THEN field.type = "TRAP" /\ field.value = 2
  ELSE IsNormal(field)

C22_CreateKeepsSessions ==
  [][last'.op = "create" =>
       \A g \in DOMAIN sessions :
          /\ g \in DOMAIN sessions'
          /\ sessions'[g] = sessions[g]]_vars

\* the game-state payload carries the correct option index of a question
LeaksCorrectIndex(payload) ==
  \E i \in DOMAIN payload.questions :
     "correctIndex" \in DOMAIN payload.questions[i]

\* C23: no event sent to a client carries the correct option index of a
\* question: neither the game-state broadcast that ends a step nor the
\* question event of a roll; and the question event of a roll goes to the
\* socket of the acting player only.
C23_NoCorrectIndexSent ==
  [][\A g \in DOMAIN sessions' :
       /\ GameStateSent(g) => ~LeaksCorrectIndex(GameState(sessions'[g]))
       /\ (last' = Did("roll", TRUE) /\ PendingOpen(sessions'[g])) =>
             \A s \in Sockets :
                RollDice(s, g) =>
                   LET after == sessions'[g]
                       k == after.currentTurn + 1
                       event == QuestionEvent(
                                  FieldOf(after, k),
                                  FindQuestion(after,
                                    Get(after.pendingQuestion).questionId))
                   IN /\ "correctIndex" \notin DOMAIN event.question
                      /\ socketToPlayerId[s] = after.players[k].id]_vars

\* C24: every step of a handler or of the sweep that changes a session ends
\* with a game-state broadcast of that session, the sweep that unsets the
\* passed turn deadline of a disconnected acting player included.
C24_ChangeIsBroadcast ==
  [][last'.op \in {"join", "roll", "answer", "restart", "disconnect", "sweep"} =>
       \A g \in DOMAIN sessions \cap DOMAIN sessions' :
          sessions'[g] # sessions[g] => GameStateSent(g)]_vars

\* the sequence of player ids of the session, in turn order
IdsInOrder(session) == [k \in DOMAIN session.players |-> session.players[k].id]

\* sequence a is an initial part of sequence b
IsPrefix(a, b) ==
  /\ Len(a) <= Len(b)
  /\ \A k \in DOMAIN a : a[k] = b[k]

\* C25: the player list of a session only grows by appending: no step of
\* join-game, roll-dice, answer-question, restart-game, disconnect or the
\* sweep removes or reorders a player, a step adds at most one player, at
\* the end, and only join-game adds one; a join-game with a player id the
\* session already knows changes neither a position nor currentTurn.
C25_PlayersOnlyAppended ==
  [][last'.op # "create" =>
       \A g \in DOMAIN sessions :
          /\ g \in DOMAIN sessions'
          /\ LET before == sessions[g]
                 after == sessions'[g]
             IN /\ IsPrefix(IdsInOrder(before), IdsInOrder(after))
                /\ Len(after.players) <= Len(before.players) + 1
                /\ Len(after.players) > Len(before.players) =>
                     last' = Did("join", TRUE)
                /\ (last'.op = "join"
                    /\ Len(after.players) = Len(before.players)) =>
                     /\ after.players = before.players
                     /\ after.currentTurn = before.currentTurn]_vars

\* the first player of a two-player session, standing on field 3 with the
\* turn at the second player, has just rejoined
C25_Witness ==
  /\ last = Did("join", TRUE)
  /\ \E g \in DOMAIN sessions :
        /\ Len(sessions[g].players) = 2
        /\ sessions[g].players[1].position = 3
        /\ sessions[g].currentTurn = 1
        /\ sessions[g].connectedPlayers = {sessions[g].players[1].id}

\* C26: in every reachable state of every session, currentTurn is an index
\* of the player list, 0 <= currentTurn < number of players, or the player
\* list is empty.
C26_TurnIndexValid ==
  \A g \in DOMAIN sessions :
     \/ sessions[g].players = << >>
     \/ /\ 0 <= sessions[g].currentTurn
        /\ sessions[g].currentTurn < Len(sessions[g].players)

\* the second of two players rolled onto a NORMAL field and the turn wrapped
\* around to the first
C26_Witness ==
  /\ last = Did("roll", TRUE)
  /\ \E g \in DOMAIN sessions :
        /\ Len(sessions[g].players) = 2
        /\ sessions[g].currentTurn = 0
        /\ sessions[g].players[1].position = 0
        /\ sessions[g].players[2].position > 0
        /\ ~PendingOpen(sessions[g])
        /\ ~HasWinner(sessions[g])

\* a deadline of the session has passed
TimeoutDue(session) ==
  Elapsed(session.turnEndsAt) \/ Elapsed(session.questionEndsAt)

\* the step just taken is a join-game, roll-dice, answer-question or
\* restart-game addressed to a session other than b, or a sweep in which a
\* deadline of a session other than b had passed and none of b
AddressedElsewhere(b) ==
  \E a \in GameIdsTwo \ {b} :
     \/ last'.op = "join" /\ \E c \in Clients : JoinGame(c[1], a, c[2])
     \/ last'.op = "roll" /\ \E s \in Sockets : RollDice(s, a)
     \/ last'.op = "answer" /\ \E s \in Sockets : AnswerQuestion(s, a)
     \/ last'.op = "restart" /\ \E s \in Sockets : RestartGame(s, a)
     \/ /\ last'.op = "sweep"
        /\ a \in DOMAIN sessions
        /\ TimeoutDue(sessions[a])
        /\ ~TimeoutDue(sessions[b])

\* C27: a join-game, roll-dice, answer-question or restart-game addressed to
\* session A leaves every field of every other session B as it was, and so
\* does a sweep in which a deadline of A has passed and none of B: a session
\* that a step changes is not such a B.
C27_OtherSessionsUntouched ==
  [][\A b \in DOMAIN sessions :
       \/ b \in DOMAIN sessions' /\ sessions'[b] = sessions[b]
       \/ ~AddressedElsewhere(b)]_vars

\* the sweep has timed out the question of G1 while the question of G2,
\* asked later, is still open with its deadline running
C27_Witness ==
  /\ last = Did("sweep", TRUE)
  /\ DOMAIN sessions = GameIdsTwo
  /\ sessions["G1"].log = <<"timeout">>
  /\ ~PendingOpen(sessions["G1"])
  /\ PendingOpen(sessions["G2"])
  /\ sessions["G2"].questionEndsAt = Some(QUESTION_TIME_MS)

\* C28: of the owner's answer-question and the sweep's question timeout for
\* one open PendingAnswer, the one processed first closes the question: it
\* leaves no PendingAnswer and no answer deadline, so that a sweep run next
\* leaves the session as it is and an answer-question sent next, by any
\* socket for any question, is turned down. The effect and the turn advance
\* are applied by the first only.
C28_SecondChangesNothing ==
  [][\A g \in DOMAIN sessions \cap DOMAIN sessions' :
       LET before == sessions[g]
           after == sessions'[g]
       IN (/\ PendingOpen(before)
           /\ \/ last' = Did("answer", TRUE) /\ after # before
              \/ /\ last'.op = "sweep"
                 /\ Elapsed(before.questionEndsAt)
                 /\ ~HasWinner(before))
          => /\ ~PendingOpen(after)
             /\ ~AnswerDeadlineSet(after)
             /\ SweepSession(after) = after
             /\ \A s \in Sockets, q \in QuestionIds :
                   ~AnswerAccepted(s, g, q)']_vars

\* the sweep has timed out a question whose owner is still connected and
\* bound to a socket, so that their answer can still arrive
C28_Witness ==
  /\ last = Did("sweep", TRUE)
  /\ \E g \in DOMAIN sessions :
        /\ sessions[g].log = <<"timeout">>
        /\ ~PendingOpen(sessions[g])
        /\ Len(sessions[g].players) = 2
        /\ \E s \in DOMAIN socketToPlayerId :
              /\ socketToPlayerId[s] \in sessions[g].connectedPlayers
              /\ IsActing(sessions[g], socketToPlayerId[s]) = FALSE

\* C29: in every reachable state where a PendingAnswer is open, its owner is
\* one of the session's players and the field under that player's position
\* is a BOOST or a TRAP field: nothing moves the owner while the question is
\* pending.
C29_PendingOwnerOnQuestionField ==
  \A g \in DOMAIN sessions :
     PendingOpen(sessions[g]) =>
       LET playerId == Get(sessions[g].pendingQuestion).playerId
       IN /\ KnownPlayer(sessions[g], playerId)
          /\ FieldOf(sessions[g], FindIndex(sessions[g].players, playerId) + 1).type
               \in {"BOOST", "TRAP"}

\* a question is still open on a TRAP field, its owner still on that field,
\* after a join-game that took its answer deadline away
C29_Witness ==
  /\ last = Did("join", TRUE)
  /\ \E g \in DOMAIN sessions :
        /\ PendingOpen(sessions[g])
        /\ Len(sessions[g].players) = 2
        /\ sessions[g].connectedPlayers = {"p1", "p2"}
        /\ sessions[g].questionEndsAt = undefined
        /\ LET playerId == Get(sessions[g].pendingQuestion).playerId
           IN FieldOf(sessions[g], FindIndex(sessions[g].players, playerId) + 1).type
                = "TRAP"

\* some session has a question open whose owner is connected
PendingOwnerConnected ==
  \E g \in DOMAIN sessions :
     /\ PendingOpen(sessions[g])
     /\ Get(sessions[g].pendingQuestion).playerId \in sessions[g].connectedPlayers

\* C30: with the sweep running and time passing, if from some point on no
\* answer-question and no restart-game is sent, then a PendingAnswer whose
\* owner stays connected does not stay open forever: again and again the
\* session is seen with no question open (or with its owner gone).
C30_PendingEventuallyTimesOut ==
  <>[][last'.op \notin {"answer", "restart"}]_vars => []<>~PendingOwnerConnected

\* C31: in every reachable state where a turn deadline is armed, the acting
\* player players[currentTurn] exists and is connected.
C31_TurnDeadlineForConnectedActing ==
  \A g \in DOMAIN sessions :
     TurnDeadlineSet(sessions[g]) => CurrentConnected(sessions[g])

\* C32: when p1 has joined on a second connection s2 while the first, s1, was
\* still bound, and the disconnect of s1 is processed afterwards, p1 stays in
\* connectedPlayers of every session they were connected in, and a roll-dice
\* or answer-question that was acceptable on s2 before that disconnect is
\* still acceptable after it.
C32_LateDisconnectKeepsPlayer ==
  [][(/\ last' = Did("disconnect", TRUE)
      /\ {"s1", "s2"} \subseteq DOMAIN socketToPlayerId
      /\ socketToPlayerId["s1"] = socketToPlayerId["s2"]
      /\ "s1" \notin DOMAIN socketToPlayerId')
     => \A g \in DOMAIN sessions :
           socketToPlayerId["s2"] \in sessions[g].connectedPlayers =>
             /\ socketToPlayerId["s2"] \in sessions'[g].connectedPlayers
             /\ RollAccepted("s2", g) => RollAccepted("s2", g)'
             /\ \A q \in QuestionIds :
                   AnswerAccepted("s2", g, q) => AnswerAccepted("s2", g, q)']_vars

\* C33: in every reachable state of a session with no winner, at least two
\* joined players and a connected acting player, a turn deadline or an answer
\* deadline is armed.
C33_ConnectedActingHasDeadline ==
  \A g \in DOMAIN sessions :
     (/\ ~HasWinner(sessions[g])
      /\ Len(sessions[g].players) >= 2
      /\ CurrentConnected(sessions[g]))
     => TurnDeadlineSet(sessions[g]) \/ AnswerDeadlineSet(sessions[g])

\* the acting player has come back to a paused game of two: the join armed
\* the turn deadline again
C33_Witness ==
  /\ last = Did("join", TRUE)
  /\ \E g \in DOMAIN sessions :
        /\ sessions[g].log = <<"pause">>
        /\ Len(sessions[g].players) = 2
        /\ ~HasWinner(sessions[g])
        /\ CurrentConnected(sessions[g])
        /\ sessions[g].players[1].position > 0
        /\ sessions[g].turnEndsAt = Some(TURN_TIME_MS)

\* C34: in every reachable state of a session whose winnerId is set, the
\* winner is one of the session's players and stands on the last board
\* index, no PendingAnswer is open, and neither the turn deadline nor the
\* answer deadline is armed.
C34_WinnerStateIsQuiet ==
  \A g \in DOMAIN sessions :
     HasWinner(sessions[g]) =>
       /\ KnownPlayer(sessions[g], Get(sessions[g].winnerId))
       /\ sessions[g].players[FindIndex(sessions[g].players,
                                        Get(sessions[g].winnerId)) + 1].position
            = LastIndex(sessions[g])
       /\ ~PendingOpen(sessions[g])
       /\ ~TurnDeadlineSet(sessions[g])
       /\ ~AnswerDeadlineSet(sessions[g])

\* a join-game has reached a game that is already won and now has two
\* connected players and no deadline: it armed nothing
C34_Witness ==
  /\ last = Did("join", TRUE)
  /\ \E g \in DOMAIN sessions :
        /\ HasWinner(sessions[g])
        /\ Len(sessions[g].players) = 2
        /\ sessions[g].connectedPlayers = {"p1", "p2"}
        /\ sessions[g].log = <<"win">>
        /\ CurrentConnected(sessions[g])

\* C35: in every reachable state where an answer deadline is armed, a
\* PendingAnswer is open and its owner is the acting player
\* players[currentTurn] and is connected.
C35_AnswerDeadlineHasConnectedOwner ==
  \A g \in DOMAIN sessions :
     AnswerDeadlineSet(sessions[g]) =>
       /\ PendingOpen(sessions[g])
       /\ CurrentConnected(sessions[g])
       /\ PlayerAt(sessions[g], sessions[g].currentTurn).id
            = Get(sessions[g].pendingQuestion).playerId

\* the other player has left a game of two while the acting player's
\* question is open: the answer deadline is still running for its owner
C35_Witness ==
  /\ last = Did("disconnect", TRUE)
  /\ \E g \in DOMAIN sessions :
        /\ AnswerDeadlineSet(sessions[g])
        /\ PendingOpen(sessions[g])
        /\ Len(sessions[g].players) = 2
        /\ Cardinality(sessions[g].connectedPlayers) = 1
        /\ CurrentConnected(sessions[g])

=============================================================================
